---- MODULE Spec2Model ----
(***************************************************************************)
(* Lifecycle orchestrator of the Palworld Discord bot: the operation lock  *)
(* (withLock), the /palstart and /palstop command handlers, startServer,   *)
(* gracefulShutdown and the background monitor.                            *)
(*                                                                         *)
(* JavaScript runs one callback at a time, so one action of this model is  *)
(* the code a handler executes between two suspension points that wait for *)
(* I/O or a timer (a remote call, a Discord call, a sleep).  A step reads  *)
(* the outcome of the call it was waiting for and runs up to the next one. *)
(***************************************************************************)
EXTENDS Integers, Sequences, FiniteSets, TLC

\* ---- bounds of the model ----
MaxPlayers == 2     \* players that can be connected at once
MaxPolls   == 2     \* iterations a poll loop makes before its timeout elapses
MaxTimers  == 2     \* interval timers registered at the same time
MaxChecks  == 3     \* cap on consecutiveEmptyChecks
MaxLen     == 2     \* length of an environment variable's value
MaxTimeout == 3     \* timeoutMs of a wrapped call, in time units
MaxElapsed == 4     \* time units a wrapped call is followed for

\* ---- processes: concurrent invocations of the async handlers ----
Cmds  == {"c1", "c2"}       \* interactionCreate handler invocations
Ticks == {"t1", "t2"}       \* setInterval callback invocations (may overlap)
Mon   == "mon"              \* the ready handler's startMonitoring call
Procs == Cmds \cup Ticks \cup {Mon}

UNKNOWN    == "UNKNOWN"
KNOWN_UP   == "KNOWN_UP"
UnknownAgain == "UNKNOWN"
KNOWN_DOWN == "KNOWN_DOWN"
SERVER_STATE == {UNKNOWN, KNOWN_UP, KNOWN_DOWN}

VARIABLES
  busy,                     \* the lock flag of withLock
  serverState,              \* monitor: RunState
  consecutiveEmptyChecks,   \* monitor: IdleCounter
  monitoringActive,         \* monitor
  intervalId,               \* monitor: TRUE when the recurring timer is registered
  srvUp,                    \* environment: the game server answers its REST API
  players,                  \* environment: number of connected players
  pc,                       \* per process: the await it is suspended at
  pollsLeft,                \* per process: iterations left before `until`
  log,                      \* per process: calls settled in its run under the lock
  ev,                       \* what the last step returned or threw
  attemptCount,             \* per tick: checkData.consecutiveEmptyChecks, the counter
                            \* after this tick's increment, while it attempts a shutdown
  pub,                      \* what the last step handed to discordClient.user.setActivity
  timers,                   \* number of interval timers registered with the runtime
  env,                      \* process.env: the monitoring settings as given ("" when unset)
  config,                   \* config.monitoring as loaded at import
  serverName,               \* environment: the servername of the server's /info
  lastKnownServerName,      \* monitor: the name used in the published status
  call                      \* one call of a function wrapped by withErrorHandling

vars == <<busy, serverState, consecutiveEmptyChecks, monitoringActive,
          intervalId, srvUp, players, pc, pollsLeft, log, ev, attemptCount, pub, timers,
          env, config, serverName, lastKnownServerName, call>>

\* what no handler of the bot writes
outside == <<env, config, serverName, call>>

\* everything but the wrapped call
bot == <<busy, serverState, consecutiveEmptyChecks, monitoringActive, intervalId,
         srvUp, players, pc, pollsLeft, log, ev, attemptCount, pub, timers,
         env, config, serverName, lastKnownServerName>>

\* ---- observations ----
Msg(t, n) == [text |-> t, count |-> n]
Plain(t) == Msg(t, 0)
NoMsg == Plain("")
E(e, n) == [e |-> e, n |-> n]
B(b) == IF b THEN 1 ELSE 0
NoEv == [proc |-> "none", kind |-> "none", success |-> FALSE, msg |-> NoMsg, log |-> <<>>]
Ev(p, k, s, m, lg) == [proc |-> p, kind |-> k, success |-> s, msg |-> m, log |-> lg]
NoPub == [status |-> "none", ok |-> TRUE]

\* ---- configuration (config/index.js) ----
\* Strings are spelled out character by character; <<>> is the empty string
\* and stands for an unset variable as well (both are falsy for ||).
IsDigit(c) == c \in {"0", "1", "2", "3", "4", "5", "6", "7", "8", "9"}
DigitValue(c) ==
  CASE c = "0" -> 0 [] c = "1" -> 1 [] c = "2" -> 2 [] c = "3" -> 3 [] c = "4" -> 4
    [] c = "5" -> 5 [] c = "6" -> 6 [] c = "7" -> 7 [] c = "8" -> 8 [] c = "9" -> 9

RECURSIVE SkipWhiteSpace(_)
SkipWhiteSpace(str) ==
  IF str # <<>> /\ Head(str) = " " THEN SkipWhiteSpace(Tail(str)) ELSE str

\* the longest prefix of digits, read in base 10; nan when there is none
RECURSIVE ReadDigits(_, _, _)
ReadDigits(str, acc, seen) ==
  IF str # <<>> /\ IsDigit(Head(str))
    THEN ReadDigits(Tail(str), acc * 10 + DigitValue(Head(str)), TRUE)
    ELSE [nan |-> ~seen, n |-> acc]

\* parseInt(value, 10): leading white space, an optional sign, digits;
\* whatever follows the digits is ignored
parseInt(value) ==
  LET str    == SkipWhiteSpace(value)
      signed == str # <<>> /\ Head(str) \in {"-", "+"}
      digits == ReadDigits(IF signed THEN Tail(str) ELSE str, 0, FALSE)
  IN [nan |-> digits.nan,
      n   |-> IF signed /\ Head(str) = "-" THEN 0 - digits.n ELSE digits.n]

Thrown == [threw |-> TRUE, value |-> 0]
NoUpperBound(value, min, max) ==
  LET parsed == parseInt(value)
  IN IF parsed.nan \/ parsed.n < min THEN Thrown
       ELSE [threw |-> FALSE, value |-> parsed.n]
validatePositiveInteger(value, min, max) ==
  LET parsed == parseInt(value)
  IN IF parsed.nan THEN Thrown
       ELSE IF parsed.n < min THEN Thrown
       ELSE IF parsed.n > max THEN Thrown
       ELSE [threw |-> FALSE, value |-> parsed.n]

\* process.env.X || 'default'
OrDefault(value, default) == IF value = <<>> THEN default ELSE value

\* config.monitoring; the import throws when a validation throws
loadConfig(e) ==
  LET intervalMs == validatePositiveInteger(
                      OrDefault(e.MONITOR_INTERVAL_MS, <<"6", "0", "0", "0", "0", "0">>),
                      60000, 3600000)
      emptyCheckThreshold == validatePositiveInteger(
                               OrDefault(e.EMPTY_CHECK_THRESHOLD, <<"2">>), 1, 10)
  IN [loaded |-> ~intervalMs.threw /\ ~emptyCheckThreshold.threw,
      intervalMs |-> intervalMs.value,
      emptyCheckThreshold |-> emptyCheckThreshold.value]

\* the values an environment variable is given
Alphabet == {"0", "1", "9", "-", " ", "x"}
Values == UNION {[1 .. n -> Alphabet] : n \in 0 .. MaxLen}
IntervalValues ==
  {<<>>, <<"x">>, <<"0">>,
   <<"5", "9", "9", "9", "9">>, <<"6", "0", "0", "0", "0">>,
   <<"6", "0", "0", "0", "0", ".", "5">>,
   <<"3", "6", "0", "0", "0", "0", "0">>, <<"3", "6", "0", "0", "0", "0", "1">>}
Unset == [MONITOR_INTERVAL_MS |-> <<>>, EMPTY_CHECK_THRESHOLD |-> <<>>]
Environments ==
  {[Unset EXCEPT !.EMPTY_CHECK_THRESHOLD = v] : v \in Values}
    \cup {[Unset EXCEPT !.MONITOR_INTERVAL_MS = v] : v \in IntervalValues}

\* the names the server can report; NoName when /info carries none
Names == {"", "Alpha", "Beta"}

\* ---- withErrorHandling (errors module) ----
\* A message is a sequence of words.  sanitizeErrorMessage on the words that
\* occur: an address and a credential are replaced, the rest is kept.
SanitizeWord(w) ==
  CASE w = "127.0.0.1:8212"   -> "[IP_ADDRESS]"
    [] w = "password=hunter2" -> "password=[REDACTED]"
    [] OTHER -> w
sanitizeErrorMessage(msg) == [i \in DOMAIN msg |-> SanitizeWord(msg[i])]

NoOutcome == [kind |-> "none", name |-> "", msg |-> <<>>]
\* how apiCall can settle
ApiOutcomes ==
  {[kind |-> "value", name |-> "", msg |-> <<"players">>],
   [kind |-> "error", name |-> "Error",
    msg |-> <<"connect", "ECONNREFUSED", "127.0.0.1:8212">>],
   [kind |-> "error", name |-> "PalworldAPIError",
    msg |-> <<"HTTP", "401", "password=hunter2">>],
   [kind |-> "error", name |-> "AbortError",
    msg |-> <<"This", "operation", "was", "aborted">>]}

\* the inner catch followed by the outer catch
Rethrown(error) ==
  LET inner == IF error.name = "AbortError"
                 THEN [kind |-> "error", name |-> "PalworldAPIError",
                       msg |-> <<"API", "request", "timeout">>]
                 ELSE [error EXCEPT !.msg = sanitizeErrorMessage(error.msg)]
  IN [inner EXCEPT !.msg = sanitizeErrorMessage(inner.msg)]

NoCall == [st |-> "idle", timeoutMs |-> 0, elapsed |-> 0, timer |-> "none",
           aborted |-> FALSE, out |-> NoOutcome]

\* the wrapped function is called: new AbortController(), setTimeout(...,
\* timeoutMs), then apiCall(...args) is awaited
WrapCall ==
  /\ call.st = "idle"
  /\ \E t \in 1 .. MaxTimeout :
       call' = [NoCall EXCEPT !.st = "pending", !.timeoutMs = t, !.timer = "armed"]
  /\ UNCHANGED bot

\* a time unit passes while apiCall is pending; a timer that is due fires
\* before more time passes
WrapTime ==
  /\ call.st = "pending"
  /\ call.elapsed < MaxElapsed
  /\ ~(call.timer = "armed" /\ call.elapsed >= call.timeoutMs)
  /\ call' = [call EXCEPT !.elapsed = @ + 1]
  /\ UNCHANGED bot

\* the timer's callback: controller.abort().  The controller's signal is
\* handed to nobody.
WrapTimeout ==
  /\ call.timer = "armed"
  /\ call.elapsed >= call.timeoutMs
  /\ call' = [call EXCEPT !.timer = "fired", !.aborted = TRUE]
  /\ UNCHANGED bot

\* apiCall settles: clearTimeout; the result is returned, or the error is
\* converted and thrown
WrapSettle ==
  /\ call.st = "pending"
  /\ \E o \in ApiOutcomes :
       call' = [call EXCEPT
                  !.st = IF o.kind = "value" THEN "returned" ELSE "thrown",
                  !.out = IF o.kind = "value" THEN o ELSE Rethrown(o),
                  !.timer = IF @ = "armed" THEN "cleared" ELSE @]
  /\ UNCHANGED bot

\* the caller has taken the result
WrapDone ==
  /\ call.st \in {"returned", "thrown"}
  /\ call' = NoCall
  /\ UNCHANGED bot

withErrorHandling == WrapCall \/ WrapTime \/ WrapTimeout \/ WrapSettle \/ WrapDone

\* ---- remote control client (palworld.js) ----
\* ok is whether the HTTP round trip itself works; a server that is not
\* running never answers.
Answers(ok) == ok /\ srvUp
AlwaysUp(ok) == TRUE
isUp(ok) == Answers(ok)

\* ---- withLock ----
NoBusyCheck == FALSE
withLockBusy == busy

NeverAcquire == FALSE
Acquire == TRUE

ReleaseOnSuccessOnly(threw) == threw
Release(threw) == FALSE

RetryWhenBusy(p) == IF p \in Cmds THEN "defer_stop" ELSE "t_players"
OnBusy(p) == IF p \in Cmds THEN "reply" ELSE "idle"

\* ---- branch conditions of the protocols ----
FirstCheckLenient(n) == n > 1
FirstCheckBlocks(n) == n > 0

SecondCheckSkipped(n) == FALSE
SecondCheckBlocks(n) == n > 0

SaveErrorSwallowed(ok) == FALSE
SaveThrows(ok) == ~ok

NeverAlready(up) == FALSE
AlreadyRunning(up) == up

\* gracefulShutdown: if (!up) return {...already DOWN}
DownIgnored(up) == FALSE
AlreadyDown(up) == ~up

\* gracefulShutdown: if (!serverDown) return {...timed out}
TimeoutIgnored(serverDown) == TRUE
ShutdownConfirmed(serverDown) == serverDown

LaunchFailureIgnored(ok) == "ss_wait"
AfterLaunch(ok) == IF ok THEN "ss_wait" ELSE "fail"

NoCountdown(n) == n
NextPolls(n) == n - 1

\* ---- branch conditions of performMonitorCheck ----
\* if (serverState === SERVER_STATE.KNOWN_DOWN) return
NeverSkips == FALSE
TickSkips == serverState = KNOWN_DOWN

\* if (consecutiveEmptyChecks >= config.monitoring.emptyCheckThreshold)
Threshold == config.emptyCheckThreshold
ThresholdExceeded(n) == n > Threshold
ThresholdReached(n) == n >= Threshold

\* catch (lockError): the counter, already incremented, is left alone
ResetOnLockError(n) == 0
AfterLockError(n) == n

\* catch (error) around the tick: log, fall through to the end of the tick
ErrorEscapes == "crashed"
OnTickError == "idle"

\* if (result.success) consecutiveEmptyChecks = 0; else the counter is kept
ResetAlways(success, n) == 0
AfterAttempt(success, n) == IF success THEN 0 ELSE n

\* players are online: consecutiveEmptyChecks = 0
KeepOnPlayers(n) == n
OnPlayers(n) == 0

\* ---- lifecycle state tracker (monitor.js) ----
\* handleServerUp: on a real change set KNOWN_UP, reset the counter and call
\* updateDiscordStatus, which then awaits getInfo() (awaits: TRUE).
UpNotRecorded ==
  [st |-> serverState, cnt |-> 0, awaits |-> TRUE]
handleServerUp ==
  IF serverState # KNOWN_UP
    THEN [st |-> KNOWN_UP, cnt |-> 0, awaits |-> TRUE]
    ELSE [st |-> serverState, cnt |-> consecutiveEmptyChecks, awaits |-> FALSE]

\* setServerUp: if (serverState !== KNOWN_UP) await handleServerUp()
AlwaysNotifiesUp ==
  [st |-> KNOWN_UP, cnt |-> 0, awaits |-> TRUE]
setServerUp ==
  IF serverState # KNOWN_UP
    THEN handleServerUp
    ELSE [st |-> serverState, cnt |-> consecutiveEmptyChecks, awaits |-> FALSE]

StateNotSet ==
  [st |-> serverState, cnt |-> 0, awaits |-> FALSE]

\* handleServerDown: on a real change set KNOWN_DOWN and reset the counter;
\* updateDiscordStatus makes no remote call when the state is not KNOWN_UP,
\* so nothing is awaited.
handleServerDown ==
  IF serverState # KNOWN_DOWN
    THEN [st |-> KNOWN_DOWN, cnt |-> 0, awaits |-> FALSE]
    ELSE [st |-> serverState, cnt |-> consecutiveEmptyChecks, awaits |-> FALSE]

\* updateDiscordStatus from the point where the activity is set: the status
\* is read from serverState at that moment, setActivity is called once, and
\* a throw of it (ok = FALSE) is caught and logged.
NeverPublishes(st, ok) == NoPub
updateDiscordStatus(st, ok) ==
  [status |-> IF st = KNOWN_UP THEN "UP" ELSE "DOWN", ok |-> ok]

\* updateDiscordStatus' getInfo() settled: if (info.servername) the name is
\* stored; a failed call or a response without a name leaves it as it was
DefaultName == "Palworld Server"
NoName == ""
NameForgotten(ok) ==
  IF Answers(ok) /\ serverName # NoName THEN serverName ELSE DefaultName
StoreName(ok) ==
  IF Answers(ok) /\ serverName # NoName THEN serverName ELSE lastKnownServerName

\* the caller of updateDiscordStatus goes on at l whatever setActivity did
AbortsOnFailure(ok, l) == IF ok THEN l ELSE "idle"
AfterUpdate(ok, l) == l

Goto(p, l) == pc' = [pc EXCEPT ![p] = l]

\* interactions are dispatched only once the client is ready, and the ready
\* handler runs startMonitoring up to its first await before anything else
Ready == pc[Mon] # "init"

\* performMonitorCheck returns: its checkData is dropped
NoAttempt == [t \in Ticks |-> 0]
TickEnds(p) ==
  attemptCount' = IF p \in Ticks THEN [attemptCount EXCEPT ![p] = 0] ELSE attemptCount
Logged(p, e) == Append(log[p], e)

\* The process starts in environment e against a server that reports name n.
Boot(e, n) ==
  /\ env = e
  /\ config = loadConfig(e)
  /\ serverName = n
  /\ lastKnownServerName = DefaultName
  /\ call = NoCall
  /\ busy = FALSE
  /\ serverState = UNKNOWN
  /\ consecutiveEmptyChecks = 0
  /\ monitoringActive = FALSE
  /\ intervalId = FALSE
  /\ srvUp \in BOOLEAN
  /\ players = 0
  /\ pc = [p \in Procs |-> IF p = Mon THEN "init" ELSE "idle"]
  /\ pollsLeft = [p \in Procs |-> 0]
  /\ log = [p \in Procs |-> <<>>]
  /\ ev = NoEv
  /\ attemptCount = NoAttempt
  /\ pub = NoPub
  /\ timers = 0

\* no monitoring variable is set, the server reports no name
Init == Boot(Unset, NoName)

\* ---- environment ----
PlayerJoin ==
  /\ srvUp /\ players < MaxPlayers
  /\ players' = players + 1
  /\ ev' = NoEv
  /\ UNCHANGED <<busy, serverState, consecutiveEmptyChecks, monitoringActive,
                 intervalId, srvUp, pc, pollsLeft, log, attemptCount>>
  /\ pub' = NoPub
  /\ UNCHANGED <<timers, outside, lastKnownServerName>>

PlayerLeave ==
  /\ players > 0
  /\ players' = players - 1
  /\ ev' = NoEv
  /\ UNCHANGED <<busy, serverState, consecutiveEmptyChecks, monitoringActive,
                 intervalId, srvUp, pc, pollsLeft, log, attemptCount>>
  /\ pub' = NoPub
  /\ UNCHANGED <<timers, outside, lastKnownServerName>>

ServerBoot ==
  /\ ~srvUp
  /\ srvUp' = TRUE
  /\ ev' = NoEv
  /\ UNCHANGED <<busy, serverState, consecutiveEmptyChecks, monitoringActive,
                 intervalId, players, pc, pollsLeft, log, attemptCount>>
  /\ pub' = NoPub
  /\ UNCHANGED <<timers, outside, lastKnownServerName>>

ServerExit ==
  /\ srvUp
  /\ srvUp' = FALSE
  /\ players' = 0
  /\ ev' = NoEv
  /\ UNCHANGED <<busy, serverState, consecutiveEmptyChecks, monitoringActive,
                 intervalId, pc, pollsLeft, log, attemptCount>>
  /\ pub' = NoPub
  /\ UNCHANGED <<timers, outside, lastKnownServerName>>

Env == PlayerJoin \/ PlayerLeave \/ ServerBoot \/ ServerExit

\* the server is given another name while it is not running
Rename ==
  /\ ~srvUp
  /\ \E n \in Names \ {serverName} : serverName' = n
  /\ ev' = NoEv
  /\ pub' = NoPub
  /\ UNCHANGED <<busy, serverState, consecutiveEmptyChecks, monitoringActive,
                 intervalId, srvUp, players, pc, pollsLeft, log, attemptCount,
                 timers, env, config, call, lastKnownServerName>>


\* ---- gracefulShutdown (called inside withLock by /palstop and by the monitor) ----

\* gracefulShutdown returns {success, message} to its caller.  st and cnt are
\* serverState and consecutiveEmptyChecks as the run leaves them.
\*   /palstop: the action goes on to editReply(result.message), lock still held.
\*   monitor : withLock's finally releases the lock and the tick resets the
\*             counter on success, all before the next suspension point.
GsFinish(p, ok, m, lg, st, cnt) ==
  /\ ev' = Ev(p, "gsReturn", ok, m, lg)
  /\ serverState' = st
  /\ log' = [log EXCEPT ![p] = <<>>]
  /\ pollsLeft' = [pollsLeft EXCEPT ![p] = 0]
  /\ IF p \in Cmds
       THEN /\ Goto(p, "reply_locked")
            /\ busy' = busy
            /\ consecutiveEmptyChecks' = cnt
       ELSE /\ Goto(p, "idle")
            /\ busy' = Release(FALSE)
            /\ consecutiveEmptyChecks' = AfterAttempt(ok, cnt)
  /\ TickEnds(p)
  /\ \E pubOk \in BOOLEAN :
       pub' = IF st # serverState THEN updateDiscordStatus(st, pubOk) ELSE NoPub
  /\ UNCHANGED <<monitoringActive, intervalId, srvUp, players, timers,
                 outside, lastKnownServerName>>

GsReturn(p, ok, m, lg) ==
  GsFinish(p, ok, m, lg, serverState, consecutiveEmptyChecks)

\* An exception leaves gracefulShutdown: withLock's finally runs, then the
\* caller's handler (.catch -> editReply for /palstop, catch (lockError) for
\* the monitor).
GsThrow(p, lg) ==
  /\ ev' = Ev(p, "gsThrow", FALSE, NoMsg, lg)
  /\ busy' = Release(TRUE)
  /\ log' = [log EXCEPT ![p] = <<>>]
  /\ Goto(p, IF p \in Cmds THEN "reply" ELSE "idle")
  /\ TickEnds(p)
  /\ UNCHANGED <<serverState, consecutiveEmptyChecks, monitoringActive,
                 intervalId, srvUp, players, pollsLeft>>
  /\ pub' = NoPub
  /\ UNCHANGED <<timers, outside, lastKnownServerName>>

\* A step inside the run that neither returns nor throws.
GsStep(p, l, lg) ==
  /\ Goto(p, l)
  /\ log' = [log EXCEPT ![p] = lg]
  /\ ev' = NoEv
  /\ UNCHANGED <<busy, serverState, consecutiveEmptyChecks, monitoringActive,
                 intervalId, srvUp, players, attemptCount>>
  /\ pub' = NoPub
  /\ UNCHANGED <<timers, outside, lastKnownServerName>>

\* const up = await isUp(); if (!up) return {...already DOWN}
GsIsUp(p) ==
  /\ pc[p] = "gs_isUp"
  /\ \E ok \in BOOLEAN :
       LET up == isUp(ok)
           lg == Logged(p, E("isUp", B(up)))
       IN IF AlreadyDown(up)
            THEN GsReturn(p, FALSE, Plain("Server already appears DOWN"), lg)
            ELSE GsStep(p, "gs_players1", lg) /\ UNCHANGED pollsLeft

\* let players = await getPlayers(); if (players.length > 0) return {...}
\* This call is made before the try block.
GsPlayers1(p) ==
  /\ pc[p] = "gs_players1"
  /\ \E ok \in BOOLEAN :
       IF ~Answers(ok)
         THEN GsThrow(p, Logged(p, E("playersFailed", 0)))
         ELSE LET lg == Logged(p, E("players", players))
              IN IF FirstCheckBlocks(players)
                   THEN GsReturn(p, FALSE, Msg("Cannot stop: player(s) online", players), lg)
                   ELSE GsStep(p, "gs_save", lg) /\ UNCHANGED pollsLeft

\* await saveWorld(); a rejection is caught by the catch at the end
GsSave(p) ==
  /\ pc[p] = "gs_save"
  /\ \E ok \in BOOLEAN :
       LET done == Answers(ok)
           lg == Logged(p, E("save", B(done)))
       IN IF SaveThrows(done)
            THEN GsReturn(p, FALSE, Plain("Stop failed"), lg)
            ELSE GsStep(p, "gs_sleep", lg) /\ UNCHANGED pollsLeft

\* await sleep(config.timing.saveWorldDelayMs)
GsSleep(p) ==
  /\ pc[p] = "gs_sleep"
  /\ GsStep(p, "gs_players2", Logged(p, E("sleep", 0)))
  /\ UNCHANGED pollsLeft

\* players = await getPlayers(); if (players.length > 0) return {...Abort}
GsPlayers2(p) ==
  /\ pc[p] = "gs_players2"
  /\ \E ok \in BOOLEAN :
       IF ~Answers(ok)
         THEN GsReturn(p, FALSE, Plain("Stop failed"),
                       Logged(p, E("playersFailed", 0)))
         ELSE LET lg == Logged(p, E("players", players))
              IN IF SecondCheckBlocks(players)
                   THEN GsReturn(p, FALSE, Msg("Abort: player(s) just connected", players), lg)
                   ELSE GsStep(p, "gs_shutdown", lg) /\ UNCHANGED pollsLeft

\* await shutdown(delay, reason); then waitForShutdown starts: until = now + timeout
GsShutdown(p) ==
  /\ pc[p] = "gs_shutdown"
  /\ \E ok \in BOOLEAN :
       LET done == Answers(ok)
           lg == Logged(p, E("shutdown", B(done)))
       IN IF ~done
            THEN GsReturn(p, FALSE, Plain("Stop failed"), lg)
            ELSE /\ GsStep(p, "gs_wait", lg)
                 /\ pollsLeft' = [pollsLeft EXCEPT ![p] = MaxPolls]

\* waitForShutdown returned serverDown to gracefulShutdown: timed out, or
\* await setServerDown(); return {success: true}
GsWaited(p, serverDown) ==
  LET lg == Logged(p, E("waitForShutdown", B(serverDown)))
  IN IF ShutdownConfirmed(serverDown)
       THEN GsFinish(p, TRUE, Plain("Graceful server stop completed"),
                     Append(lg, E("setServerDown", 0)),
                     handleServerDown.st, handleServerDown.cnt)
       ELSE GsReturn(p, FALSE, Plain("Server shutdown timed out"), lg)

\* one iteration of waitForShutdown: if (!(await isUp())) return true; sleep;
\* return false once the timeout has elapsed
GsWait(p) ==
  /\ pc[p] = "gs_wait"
  /\ \E ok \in BOOLEAN :
       IF ~isUp(ok)
         THEN GsWaited(p, TRUE)
         ELSE IF NextPolls(pollsLeft[p]) <= 0
           THEN GsWaited(p, FALSE)
           ELSE /\ pollsLeft' = [pollsLeft EXCEPT ![p] = NextPolls(pollsLeft[p])]
                /\ ev' = NoEv
                /\ pub' = NoPub
                /\ UNCHANGED <<timers, outside, lastKnownServerName>>
                /\ UNCHANGED <<busy, serverState, consecutiveEmptyChecks,
                               monitoringActive, intervalId, srvUp, players, pc, log, attemptCount>>

gracefulShutdown(p) ==
  \/ GsIsUp(p) \/ GsPlayers1(p) \/ GsSave(p) \/ GsSleep(p)
  \/ GsPlayers2(p) \/ GsShutdown(p) \/ GsWait(p)


\* ---- interactionCreate ----

\* /palstart and /palstop wrap their action in withLock; /palstatus and
\* /palplayers ("defer_read") do not.
EveryCommandLocks(l) == TRUE
UsesLock(l) == l \in {"defer_start", "defer_stop"}

\* ---- checkAuthorization (middleware/auth.js) ----
\* Role names, spelled out letter by letter.
palserver == <<"p", "a", "l", "s", "e", "r", "v", "e", "r">>
PalServer == <<"P", "a", "l", "S", "e", "r", "v", "e", "r">>
Admin     == <<"A", "d", "m", "i", "n">>
pals      == <<"p", "a", "l", "s">>

\* String.prototype.toLowerCase on the letters that occur
LowerChar(c) ==
  CASE c = "A" -> "a"
    [] c = "P" -> "p"
    [] c = "S" -> "s"
    [] OTHER -> c
toLowerCase(name) == [i \in DOMAIN name |-> LowerChar(name[i])]

\* The members an interaction can come from, by their role names:
\* interaction.member is null (1), or the member holds the listed roles.
Members == 1 .. 3
MemberRoles(m) ==
  CASE m = 1 -> {}
    [] m = 2 -> {Admin, pals}
    [] m = 3 -> {Admin, PalServer}
\* the members that hold the role
Staff == {3}

\* member?.roles?.cache?.some(r => r.name.toLowerCase() === 'palserver')
AnyMember(m) == TRUE
userHasPalserverRole(m) == \E r \in MemberRoles(m) : toLowerCase(r) = palserver

\* A command of one of the given kinds arrives from one of the given members.
\* if (!checkAuthorization(interaction)) return: without the role the handler
\* replies 'You need the `palserver` role' and returns; with it deferReply()
\* is awaited.
Issue(p, kinds, ms) ==
  /\ p \in Cmds
  /\ Ready
  /\ pc[p] = "idle"
  /\ \E m \in ms :
       IF ~userHasPalserverRole(m)
         THEN /\ ev' = Ev(p, "unauthorized", FALSE, Msg("member", m), <<>>)
              /\ UNCHANGED pc
         ELSE /\ ev' = Ev(p, "authorized", FALSE, Msg("member", m), <<>>)
              /\ \E l \in kinds : Goto(p, l)
  /\ UNCHANGED <<busy, serverState, consecutiveEmptyChecks, monitoringActive,
                 intervalId, srvUp, players, pollsLeft, log, attemptCount>>
  /\ pub' = NoPub
  /\ UNCHANGED <<timers, outside, lastKnownServerName>>

\* /palstart or /palstop arrives from a member holding the role
CmdIssue(p) == Issue(p, {"defer_start", "defer_stop"}, Staff)

\* /palstatus or /palplayers arrives from a member holding the role
ReadIssue(p) == Issue(p, {"defer_read"}, Staff)

\* any command arrives from any member
AnyIssue(p) == Issue(p, {"defer_start", "defer_stop", "defer_read"}, Members)

\* deferReply() settles.  If it rejected, the handler's catch replies
\* 'Unexpected error'.  A read command goes on to requireServerUp's isUp().
\* Otherwise withLock(...) is called: it throws at once
\* when busy, else sets busy and starts the action up to its first await.
CmdDeferred(p) ==
  /\ p \in Cmds
  /\ pc[p] \in {"defer_start", "defer_stop", "defer_read"}
  /\ \E ok \in BOOLEAN :
       IF ~ok
         THEN /\ Goto(p, "reply")
              /\ ev' = NoEv
              /\ UNCHANGED busy
         ELSE IF ~UsesLock(pc[p])
           THEN /\ Goto(p, "r_isUp")
                /\ ev' = NoEv
                /\ UNCHANGED busy
         ELSE IF withLockBusy
           THEN /\ Goto(p, OnBusy(p))
                /\ ev' = Ev(p, "busy", FALSE, Plain("Another operation is in progress"), <<>>)
                /\ UNCHANGED busy
           ELSE /\ busy' = Acquire
                /\ Goto(p, IF pc[p] = "defer_start" THEN "h_isUp" ELSE "gs_isUp")
                /\ ev' = Ev(p, "acquired", FALSE, NoMsg, <<>>)
  /\ UNCHANGED <<serverState, consecutiveEmptyChecks, monitoringActive,
                 intervalId, srvUp, players, pollsLeft, log, attemptCount>>
  /\ pub' = NoPub
  /\ UNCHANGED <<timers, outside, lastKnownServerName>>

\* An editReply made by the action inside withLock settles; the action's
\* promise settles with it and withLock's finally releases the lock.  If the
\* editReply rejected, the .catch after withLock replies once more.
CmdReplyLocked(p) ==
  /\ p \in Cmds
  /\ pc[p] \in {"reply_locked", "reply_started"}
  /\ \E ok \in BOOLEAN :
       /\ busy' = Release(~ok)
       /\ Goto(p, IF ok THEN "idle" ELSE "reply")
       /\ ev' = Ev(p, IF ok THEN "released" ELSE "lockedThrow", FALSE, NoMsg, log[p])
  /\ log' = [log EXCEPT ![p] = <<>>]
  /\ UNCHANGED <<serverState, consecutiveEmptyChecks, monitoringActive,
                 intervalId, srvUp, players, pollsLeft, attemptCount>>
  /\ pub' = NoPub
  /\ UNCHANGED <<timers, outside, lastKnownServerName>>

\* A reply made outside the lock settles; the handler is finished.
CmdReply(p) ==
  /\ p \in Cmds
  /\ pc[p] = "reply"
  /\ Goto(p, "idle")
  /\ ev' = NoEv
  /\ UNCHANGED <<busy, serverState, consecutiveEmptyChecks, monitoringActive,
                 intervalId, srvUp, players, pollsLeft, log, attemptCount>>
  /\ pub' = NoPub
  /\ UNCHANGED <<timers, outside, lastKnownServerName>>

\* /palstatus, /palplayers: requireServerUp's isUp() settles; when down,
\* editReply('Server appears DOWN') is awaited and the handler returns.
ReadIsUp(p) ==
  /\ p \in Cmds
  /\ pc[p] = "r_isUp"
  /\ \E ok \in BOOLEAN :
       IF isUp(ok)
         THEN Goto(p, "r_data") /\ ev' = NoEv
         ELSE Goto(p, "reply") /\ ev' = Ev(p, "readDown", FALSE, Plain("Server appears DOWN"), <<>>)
  /\ UNCHANGED <<busy, serverState, consecutiveEmptyChecks, monitoringActive,
                 intervalId, srvUp, players, pollsLeft, log, attemptCount>>
  /\ pub' = NoPub
  /\ UNCHANGED <<timers, outside, lastKnownServerName>>

\* createServerStatusEmbed() (/palstatus) or getPlayers() (/palplayers)
\* settles: the answer is sent with editReply; a rejection reaches the
\* handler's catch, which replies 'Unexpected error'.
ReadData(p) ==
  /\ p \in Cmds
  /\ pc[p] = "r_data"
  /\ \E ok \in BOOLEAN :
       ev' = IF Answers(ok)
               THEN Ev(p, "readDone", TRUE, Msg("", players), <<>>)
               ELSE Ev(p, "readError", FALSE, Plain("Unexpected error"), <<>>)
  /\ Goto(p, "reply")
  /\ UNCHANGED <<busy, serverState, consecutiveEmptyChecks, monitoringActive,
                 intervalId, srvUp, players, pollsLeft, log, attemptCount>>
  /\ pub' = NoPub
  /\ UNCHANGED <<timers, outside, lastKnownServerName>>

\* /palstart, inside the lock: const up = await isUp()
StartIsUp(p) ==
  /\ pc[p] = "h_isUp"
  /\ \E ok \in BOOLEAN :
       LET up == isUp(ok)
       IN GsStep(p, IF up THEN "h_embedUp" ELSE "ss_isUp", Logged(p, E("handlerIsUp", B(up))))
  /\ UNCHANGED pollsLeft

\* already up: createServerStatusEmbed() is awaited outside any try block; if
\* it rejects the action throws, else editReply is awaited under the lock.
StartEmbedUp(p) ==
  /\ pc[p] = "h_embedUp"
  /\ \E ok \in BOOLEAN :
       IF Answers(ok)
         THEN /\ Goto(p, "reply_locked")
              /\ UNCHANGED <<busy, log>>
              /\ ev' = NoEv
         ELSE /\ Goto(p, "reply")
              /\ busy' = Release(TRUE)
              /\ log' = [log EXCEPT ![p] = <<>>]
              /\ ev' = Ev(p, "lockedThrow", FALSE, NoMsg, log[p])
  /\ UNCHANGED <<serverState, consecutiveEmptyChecks, monitoringActive,
                 intervalId, srvUp, players, pollsLeft, attemptCount>>
  /\ pub' = NoPub
  /\ UNCHANGED <<timers, outside, lastKnownServerName>>

\* startServer returned to the /palstart action: await setServerUp(), which
\* awaits updateDiscordStatus' getInfo() on a real change; then
\* createServerStatusEmbed() is awaited.
SsReturn(p, started, m, lg) ==
  /\ ev' = Ev(p, "ssReturn", started, m, lg)
  /\ log' = [log EXCEPT ![p] = lg]
  /\ serverState' = setServerUp.st
  /\ consecutiveEmptyChecks' = setServerUp.cnt
  /\ Goto(p, IF setServerUp.awaits THEN "h_getInfo" ELSE "h_embed")
  /\ pollsLeft' = [pollsLeft EXCEPT ![p] = 0]
  /\ UNCHANGED <<busy, monitoringActive, intervalId, srvUp, players, attemptCount>>
  /\ pub' = NoPub
  /\ UNCHANGED <<timers, outside, lastKnownServerName>>

\* startServer threw: the action's catch (e) awaits editReply('Start failed').
SsThrow(p, m, lg) ==
  /\ ev' = Ev(p, "ssThrow", FALSE, m, lg)
  /\ log' = [log EXCEPT ![p] = lg]
  /\ Goto(p, "reply_locked")
  /\ pollsLeft' = [pollsLeft EXCEPT ![p] = 0]
  /\ UNCHANGED <<busy, serverState, consecutiveEmptyChecks, monitoringActive,
                 intervalId, srvUp, players, attemptCount>>
  /\ pub' = NoPub
  /\ UNCHANGED <<timers, outside, lastKnownServerName>>

\* startServer: const already = await isUp(); if (already) return {...};
\* otherwise the launcher is invoked and awaited.
SsIsUp(p) ==
  /\ pc[p] = "ss_isUp"
  /\ \E ok \in BOOLEAN :
       LET up == isUp(ok)
           lg == Logged(p, E("isUp", B(up)))
       IN IF AlreadyRunning(up)
            THEN SsReturn(p, FALSE, Plain("already_running"), lg)
            ELSE GsStep(p, "ss_launch", lg) /\ UNCHANGED pollsLeft

\* runSecurePowerShell / runSecureDetached settles; then waitFor starts.
SsLaunch(p) ==
  /\ pc[p] = "ss_launch"
  /\ \E ok \in BOOLEAN :
       LET lg == Logged(p, E("launch", B(ok)))
       IN IF AfterLaunch(ok) = "fail"
            THEN SsThrow(p, Plain("launch failed"), lg)
            ELSE /\ GsStep(p, AfterLaunch(ok), lg)
                 /\ pollsLeft' = [pollsLeft EXCEPT ![p] = MaxPolls]

\* one iteration of waitFor: if (await isUp()) return true; sleep
SsWait(p) ==
  /\ pc[p] = "ss_wait"
  /\ \E ok \in BOOLEAN :
       IF isUp(ok)
         THEN SsReturn(p, TRUE, NoMsg, log[p])
         ELSE IF NextPolls(pollsLeft[p]) <= 0
           THEN SsThrow(p, Plain("Server did not come up in time"), log[p])
           ELSE /\ pollsLeft' = [pollsLeft EXCEPT ![p] = NextPolls(pollsLeft[p])]
                /\ ev' = NoEv
                /\ pub' = NoPub
                /\ UNCHANGED <<timers, outside, lastKnownServerName>>
                /\ UNCHANGED <<busy, serverState, consecutiveEmptyChecks,
                               monitoringActive, intervalId, srvUp, players, pc, log, attemptCount>>

\* updateDiscordStatus' getInfo() settles (inside setServerUp); the action
\* goes on to createServerStatusEmbed().
StartGetInfo(p) ==
  /\ pc[p] = "h_getInfo"
  /\ \E pubOk \in BOOLEAN :
       /\ pub' = updateDiscordStatus(serverState, pubOk)
       /\ Goto(p, AfterUpdate(pubOk, "h_embed"))
  /\ ev' = NoEv
  /\ UNCHANGED <<busy, serverState, consecutiveEmptyChecks, monitoringActive,
                 intervalId, srvUp, players, pollsLeft, log, attemptCount, timers,
                 outside>>
  /\ \E infoOk \in BOOLEAN : lastKnownServerName' = StoreName(infoOk)

\* createServerStatusEmbed() settles; either way an editReply ('Server
\* started successfully!' or 'Launch requested...') is awaited.
StartEmbed(p) ==
  /\ pc[p] = "h_embed"
  /\ GsStep(p, "reply_started", log[p])
  /\ UNCHANGED pollsLeft

startServer(p) == SsIsUp(p) \/ SsLaunch(p) \/ SsWait(p)

Command(p) ==
  \/ CmdIssue(p) \/ CmdDeferred(p) \/ CmdReplyLocked(p) \/ CmdReply(p)
  \/ StartIsUp(p) \/ StartEmbedUp(p) \/ StartGetInfo(p) \/ StartEmbed(p)
  \/ startServer(p)

Read(p) == ReadIssue(p) \/ ReadIsUp(p) \/ ReadData(p)


\* ---- monitor (startMonitoring, performMonitorCheck) ----

\* setInterval(...): one more timer is registered and intervalId refers to it
RegisterTimer ==
  /\ timers < MaxTimers
  /\ timers' = timers + 1
  /\ intervalId' = TRUE

\* startMonitoring is called by p: if (monitoringActive) return; otherwise the
\* flag is set, the counter reset and the seed isUp() awaited.
StartCall(p, back) ==
  /\ IF monitoringActive
       THEN /\ Goto(p, back)
            /\ ev' = Ev(p, "startSkipped", FALSE, NoMsg, <<>>)
            /\ UNCHANGED <<monitoringActive, consecutiveEmptyChecks>>
       ELSE /\ monitoringActive' = TRUE
            /\ consecutiveEmptyChecks' = 0
            /\ Goto(p, "seed_isUp")
            /\ ev' = NoEv
  /\ UNCHANGED <<busy, serverState, intervalId, srvUp, players, pollsLeft, log, attemptCount>>
  /\ pub' = NoPub
  /\ UNCHANGED <<timers, outside, lastKnownServerName>>

\* the seed isUp() settles: handleServerUp / handleServerDown, then setInterval
SeedSettled(p, back) ==
  /\ \E ok \in BOOLEAN :
       LET h == IF isUp(ok) THEN handleServerUp ELSE handleServerDown
       IN /\ serverState' = h.st
          /\ consecutiveEmptyChecks' = h.cnt
          /\ Goto(p, IF h.awaits THEN "seed_getInfo" ELSE back)
          /\ IF h.awaits THEN UNCHANGED <<intervalId, timers>> ELSE RegisterTimer
          /\ \E pubOk \in BOOLEAN :
               pub' = IF h.st # serverState /\ ~h.awaits
                        THEN updateDiscordStatus(h.st, pubOk) ELSE NoPub
  /\ ev' = NoEv
  /\ UNCHANGED <<busy, monitoringActive, srvUp, players, pollsLeft, log, attemptCount,
                 outside, lastKnownServerName>>

\* updateDiscordStatus' getInfo() settles inside the seed check; setInterval
SeedGetInfo(p, back) ==
  /\ \E pubOk \in BOOLEAN :
       /\ pub' = updateDiscordStatus(serverState, pubOk)
       /\ Goto(p, AfterUpdate(pubOk, back))
  /\ RegisterTimer
  /\ ev' = NoEv
  /\ UNCHANGED <<busy, serverState, consecutiveEmptyChecks, monitoringActive,
                 srvUp, players, pollsLeft, log, attemptCount, outside>>
  /\ \E infoOk \in BOOLEAN : lastKnownServerName' = StoreName(infoOk)

\* the ready handler's call; the process runs only if config was loaded
MonStart == pc[Mon] = "init" /\ config.loaded /\ StartCall(Mon, "done")

MonSeed == pc[Mon] = "seed_isUp" /\ SeedSettled(Mon, "done")

MonSeedGetInfo == pc[Mon] = "seed_getInfo" /\ SeedGetInfo(Mon, "done")

\* stopMonitoring is called by p: if (!monitoringActive) return; otherwise the
\* flag and the counter are cleared and the timer intervalId refers to, if
\* any, is cleared.
stopMonitoring(p) ==
  /\ p \in Cmds
  /\ pc[p] = "idle"
  /\ IF ~monitoringActive
       THEN /\ ev' = Ev(p, "stopSkipped", FALSE, NoMsg, <<>>)
            /\ UNCHANGED <<monitoringActive, consecutiveEmptyChecks, intervalId, timers>>
       ELSE /\ ev' = Ev(p, "stopped", FALSE, NoMsg, <<>>)
            /\ monitoringActive' = FALSE
            /\ consecutiveEmptyChecks' = 0
            /\ intervalId' = FALSE
            /\ timers' = IF intervalId THEN timers - 1 ELSE timers
  /\ pub' = NoPub
  /\ UNCHANGED <<busy, serverState, srvUp, players, pc, pollsLeft, log, attemptCount,
                 outside, lastKnownServerName>>

\* startMonitoring called by some other part of the process than the ready
\* handler
ApiStart(p) == p \in Cmds /\ pc[p] = "idle" /\ StartCall(p, "idle")

ApiSeed(p) == p \in Cmds /\ pc[p] = "seed_isUp" /\ SeedSettled(p, "idle")

ApiSeedGetInfo(p) == p \in Cmds /\ pc[p] = "seed_getInfo" /\ SeedGetInfo(p, "idle")

\* setInterval's timer is due
FiresUnscheduled == monitoringActive
TimerFires == timers > 0

\* the timer fires: performMonitorCheck returns at once when KNOWN_DOWN,
\* otherwise awaits isUp()
TickFire(t) ==
  /\ t \in Ticks
  /\ pc[t] = "idle"
  /\ TimerFires
  /\ IF TickSkips
       THEN /\ ev' = Ev(t, "tickSkipped", FALSE, NoMsg, <<>>)
            /\ UNCHANGED <<pc, attemptCount>>
       ELSE /\ ev' = NoEv
            /\ Goto(t, "t_isUp")
            /\ UNCHANGED attemptCount
  /\ UNCHANGED <<busy, serverState, consecutiveEmptyChecks, monitoringActive,
                 intervalId, srvUp, players, pollsLeft, log>>
  /\ pub' = NoPub
  /\ UNCHANGED <<timers, outside, lastKnownServerName>>

\* isUp() settles: down -> handleServerDown and return; up -> handleServerUp
\* if the state is not KNOWN_UP, then getPlayers() is awaited
TickIsUp(t) ==
  /\ t \in Ticks
  /\ pc[t] = "t_isUp"
  /\ \E ok \in BOOLEAN :
       LET up == isUp(ok)
           h == IF up THEN handleServerUp ELSE handleServerDown
       IN /\ serverState' = h.st
          /\ consecutiveEmptyChecks' = h.cnt
          /\ Goto(t, IF ~up THEN "idle" ELSE IF h.awaits THEN "t_getInfo" ELSE "t_players")
          /\ IF ~up THEN TickEnds(t) ELSE UNCHANGED attemptCount
          /\ ev' = IF ~up THEN Ev(t, "tickDown", FALSE, NoMsg, <<>>) ELSE NoEv
          /\ \E pubOk \in BOOLEAN :
               pub' = IF h.st # serverState /\ ~h.awaits
                        THEN updateDiscordStatus(h.st, pubOk) ELSE NoPub
  /\ UNCHANGED <<busy, monitoringActive, intervalId, srvUp, players, pollsLeft, log,
                 timers, outside, lastKnownServerName>>

\* updateDiscordStatus' getInfo() settles inside the tick's handleServerUp
TickGetInfo(t) ==
  /\ t \in Ticks
  /\ pc[t] = "t_getInfo"
  /\ \E pubOk \in BOOLEAN :
       /\ pub' = updateDiscordStatus(serverState, pubOk)
       /\ Goto(t, AfterUpdate(pubOk, "t_players"))
  /\ ev' = NoEv
  /\ UNCHANGED <<busy, serverState, consecutiveEmptyChecks, monitoringActive,
                 intervalId, srvUp, players, pollsLeft, log, attemptCount, timers,
                 outside>>
  /\ \E infoOk \in BOOLEAN : lastKnownServerName' = StoreName(infoOk)

\* getPlayers() settles: rejected -> the tick's catch logs and returns;
\* players -> reset the counter; none -> count, and at the threshold call
\* withLock(gracefulShutdown); a lock error is caught and logged
TickPlayers(t) ==
  /\ t \in Ticks
  /\ pc[t] = "t_players"
  /\ \E ok \in BOOLEAN :
       IF ~Answers(ok)
         THEN /\ Goto(t, OnTickError)
              /\ ev' = Ev(t, "tickError", FALSE, NoMsg, <<>>)
              /\ TickEnds(t)
              /\ UNCHANGED <<busy, consecutiveEmptyChecks>>
         ELSE IF players > 0
           THEN /\ Goto(t, "idle")
                /\ consecutiveEmptyChecks' = OnPlayers(consecutiveEmptyChecks)
                /\ ev' = Ev(t, "tickPlayers", FALSE, Msg("", players), <<>>)
                /\ TickEnds(t)
                /\ UNCHANGED busy
           ELSE /\ consecutiveEmptyChecks < MaxChecks
                /\ IF ThresholdReached(consecutiveEmptyChecks + 1)
                     THEN IF withLockBusy
                       THEN /\ Goto(t, OnBusy(t))
                            /\ consecutiveEmptyChecks' = AfterLockError(consecutiveEmptyChecks + 1)
                            /\ ev' = Ev(t, "busy", FALSE, Plain("Another operation is in progress"), <<>>)
                            /\ TickEnds(t)
                            /\ UNCHANGED busy
                       ELSE /\ busy' = Acquire
                            /\ consecutiveEmptyChecks' = consecutiveEmptyChecks + 1
                            /\ Goto(t, "gs_isUp")
                            /\ ev' = Ev(t, "acquired", FALSE, NoMsg, <<>>)
                            /\ attemptCount' = [attemptCount EXCEPT ![t] = consecutiveEmptyChecks + 1]
                     ELSE /\ Goto(t, "idle")
                          /\ consecutiveEmptyChecks' = consecutiveEmptyChecks + 1
                          /\ ev' = Ev(t, "tickIdle", FALSE, NoMsg, <<>>)
                          /\ TickEnds(t)
                          /\ UNCHANGED busy
  /\ UNCHANGED <<serverState, monitoringActive, intervalId, srvUp, players,
                 pollsLeft, log>>
  /\ pub' = NoPub
  /\ UNCHANGED <<timers, outside, lastKnownServerName>>

Monitor(t) == TickFire(t) \/ TickIsUp(t) \/ TickGetInfo(t) \/ TickPlayers(t)

startMonitoring == MonStart \/ MonSeed \/ MonSeedGetInfo

\* ---- specification ----
Step(p) == Command(p) \/ Monitor(p) \/ gracefulShutdown(p)

Next ==
  \/ \E p \in Cmds \cup Ticks : Step(p)
  \/ startMonitoring
  \/ Env

Spec == Init /\ [][Next]_vars

\* The program with the read commands /palstatus and /palplayers issued as
\* well.
ReadNext == Next \/ \E p \in Cmds : Read(p)

ReadSpec == Init /\ [][ReadNext]_vars

\* The program with all its commands, issued by members with and without the
\* palserver role.
AuthNext == ReadNext \/ \E p \in Cmds : AnyIssue(p)

AuthSpec == Init /\ [][AuthNext]_vars

\* One command handler and one timer callback at a time.
SingleNext == Step("c1") \/ Step("t1") \/ startMonitoring \/ Env

\* The process started with any value of a monitoring variable.
ConfigInit == \E e \in Environments : Boot(e, NoName)

ConfigSpec == ConfigInit /\ [][SingleNext]_vars

\* The process against a server that reports any name and can be renamed.
NameInit == \E n \in Names : Boot(Unset, n)

NameSpec == NameInit /\ [][SingleNext \/ Rename]_vars

\* One call at a time of a function wrapped by withErrorHandling.
WrapSpec == Init /\ [][withErrorHandling]_vars

\* The monitor module driven through its exported functions: startMonitoring
\* and stopMonitoring are called at any time, also while an earlier
\* startMonitoring call is awaiting its seed check.  Commands and the timer
\* callbacks are left out: they neither register nor clear a timer.
LifecycleNext ==
  \/ \E p \in Cmds : ApiStart(p) \/ ApiSeed(p) \/ ApiSeedGetInfo(p) \/ stopMonitoring(p)
  \/ startMonitoring
  \/ Env

Lifecycle == Init /\ [][LifecycleNext]_vars


\* The steps a process takes while it holds the lock.
LockedStep(p) ==
  \/ gracefulShutdown(p) \/ startServer(p)
  \/ StartIsUp(p) \/ StartEmbedUp(p) \/ StartGetInfo(p) \/ StartEmbed(p)
  \/ CmdReplyLocked(p)

\* Every call that is awaited eventually settles, and the event loop then
\* resumes the handler that awaits it.
FairSpec == Spec /\ \A p \in Cmds \cup Ticks : WF_vars(LockedStep(p))

\* Moreover the seed check completes and the interval timer keeps firing: a
\* tick that can take a step eventually takes it.
FairMonitor ==
  /\ FairSpec
  /\ WF_vars(startMonitoring)
  /\ \A t \in Ticks : WF_vars(Monitor(t))

\* ---- vocabulary of the properties ----
StartPcs == {"ss_isUp", "ss_launch", "ss_wait"}
GsPcs == {"gs_isUp", "gs_players1", "gs_save", "gs_sleep", "gs_players2",
          "gs_shutdown", "gs_wait"}
ProtocolPcs == StartPcs \cup GsPcs
LockedPcs == ProtocolPcs \cup {"h_isUp", "h_embedUp", "h_getInfo", "h_embed",
                              "reply_locked", "reply_started"}

InProtocol(p) == pc[p] \in ProtocolPcs
InLocked(p) == pc[p] \in LockedPcs
Has(lg, e) == \E i \in DOMAIN lg : lg[i] = e
HasKind(lg, k) == \E i \in DOMAIN lg : lg[i].e = k
CountKind(lg, k) == Cardinality({i \in DOMAIN lg : lg[i].e = k})
Logs == {log[p] : p \in Procs} \cup {ev.log}

\* ---- C1 ----
\* C1: at most one protocol run (startServer, manual or automatic
\* gracefulShutdown) is in progress at any instant, and while one is in
\* progress busy is true.
C1_OneProtocolAtATime ==
  /\ \A p, q \in Procs : InProtocol(p) /\ InProtocol(q) => p = q
  /\ (\E p \in Procs : InProtocol(p)) => busy

\* the monitor is saving the world while a command is about to call withLock
C1_Witness ==
  /\ \E t \in Ticks : pc[t] = "gs_save"
  /\ \E c \in Cmds : pc[c] = "defer_start"
  /\ \E c \in Cmds : pc[c] = "defer_stop"

\* ---- C2 ----
\* C2: a gracefulShutdown run in which a player poll returned one or more
\* players returns success=false with that count in its message.
C2_NoStopWithPlayers ==
  ev.kind = "gsReturn" =>
    \A i \in DOMAIN ev.log :
      (ev.log[i].e = "players" /\ ev.log[i].n > 0) =>
        /\ ~ev.success
        /\ ev.msg.count = ev.log[i].n

\* a run aborted by its second poll, which found two players
C2_Witness ==
  /\ ev.kind = "gsReturn"
  /\ Len(ev.log) = 5
  /\ ev.log[2] = E("players", 0)
  /\ ev.log[5] = E("players", 2)

\* ---- C3 ----
GatePrefix == <<E("isUp", 1), E("players", 0), E("save", 1), E("sleep", 0), E("players", 0)>>

\* C3: a shutdown request is made only after a liveness poll reporting up,
\* a player poll returning zero, a successful save, the settle delay and a
\* second player poll returning zero, in this order, whether the run was
\* started by /palstop or by the monitor.
C3_ShutdownGated ==
  /\ \A lg \in Logs : \A i \in DOMAIN lg :
       lg[i].e = "shutdown" => SubSeq(lg, 1, i - 1) = GatePrefix
  /\ \A p \in Procs : pc[p] = "gs_shutdown" => log[p] = GatePrefix

\* the monitor has made its shutdown request and polls for the server to go down
C3_Witness ==
  \E t \in Ticks : pc[t] = "gs_wait" /\ log[t] = Append(GatePrefix, E("shutdown", 1))

\* ---- C4 ----
\* C4: a withLock call made while the lock is held fails at once with the busy
\* error, leaves the lock with its holder, and its action is run neither then
\* nor later: the caller only finishes its handler.
C4_BusyFailsFast ==
  /\ [](ev.kind = "busy" =>
          /\ ~InLocked(ev.proc)
          /\ pc[ev.proc] \in {"reply", "idle"}
          /\ busy
          /\ \E q \in Procs \ {ev.proc} : InLocked(q))
  /\ [][\A c \in Cmds : pc[c] = "reply" => pc'[c] \in {"reply", "idle"}]_vars

\* a command was refused while the other command runs startServer
C4_Witness ==
  /\ ev.kind = "busy"
  /\ ev.proc \in Cmds
  /\ \E q \in Cmds : pc[q] = "ss_wait"

\* ---- C5 ----
\* C5: withLock releases the lock on every exit path: busy is true only while
\* some action is running under the lock, and it is false right after the
\* action returned or threw.
C5_AlwaysReleased ==
  /\ busy => \E p \in Procs : InLocked(p)
  /\ ev.kind \in {"gsThrow", "lockedThrow", "released"} => ~busy
  /\ (ev.kind = "gsReturn" /\ ev.proc \in Ticks) => ~busy

\* gracefulShutdown threw inside the lock and the lock is free again
C5_Witness == ev.kind = "gsThrow" /\ ~busy /\ \E c \in Cmds : pc[c] = "defer_stop"

\* ---- C6 ----
\* C6: when every awaited call settles, the lock is never held forever.
C6_LockEventuallyFree == busy ~> ~busy

\* a poll loop under the lock is on its last iteration before the timeout
C6_Witness ==
  /\ busy
  /\ \E p \in Procs : pc[p] \in {"gs_wait", "ss_wait"} /\ pollsLeft[p] = 1

\* ---- C7 ----
IsStartLog(lg) == Len(lg) >= 1 /\ lg[1].e = "handlerIsUp"

\* C7: when startServer's own liveness poll reports up it returns
\* {started: false, reason: 'already_running'}; that run made no launcher
\* invocation and no call other than its polls.
C7_StartIdempotent ==
  /\ \A p \in Procs :
       (IsStartLog(log[p]) /\ Has(log[p], E("isUp", 1))) =>
         /\ log[p] = <<E("handlerIsUp", 0), E("isUp", 1)>>
         /\ pc[p] \notin StartPcs
  /\ (ev.kind = "ssReturn" /\ Has(ev.log, E("isUp", 1))) =>
         /\ ~ev.success
         /\ ev.msg.text = "already_running"
         /\ ~HasKind(ev.log, "launch")
  /\ ev.kind = "ssThrow" => ~Has(ev.log, E("isUp", 1))

\* the server came up between the handler's poll and startServer's poll
C7_Witness ==
  /\ ev.kind = "ssReturn"
  /\ ev.msg.text = "already_running"
  /\ ev.log = <<E("handlerIsUp", 0), E("isUp", 1)>>

\* ---- C8 ----
\* C8: while a launcher invocation is in flight no other process runs a start
\* or stop protocol; a start run invokes the launcher at most once, right
\* after its own liveness poll reported not-up; a refused /palstart invokes
\* no launcher.
C8_NoDoubleStart ==
  /\ \A p \in Procs : pc[p] = "ss_launch" =>
       /\ \A q \in Procs \ {p} : ~InLocked(q)
       /\ log[p] = <<E("handlerIsUp", 0), E("isUp", 0)>>
  /\ \A lg \in Logs :
       /\ CountKind(lg, "launch") <= 1
       /\ \A i \in DOMAIN lg : lg[i].e = "launch" => (i > 1 /\ lg[i - 1] = E("isUp", 0))
  /\ ev.kind = "busy" => pc[ev.proc] \notin StartPcs

\* the launcher runs for one command while the other /palstart is being deferred
C8_Witness ==
  /\ \E c \in Cmds : pc[c] = "ss_launch"
  /\ \E c \in Cmds : pc[c] = "defer_start"

\* ---- C9 ----
\* C9: gracefulShutdown never throws to its caller: every failure of a remote
\* call ends the run with a {success: false, message} value.
C9_NeverThrows == ev.kind # "gsThrow"

\* ---- C10 ----
\* C10: when the save request fails the run returns success=false; the save
\* was requested once, nothing follows it (no shutdown request, no
\* setServerDown), and the returning step leaves serverState as it was.
C10_SaveFailureFatal ==
  /\ []((ev.kind = "gsReturn" /\ Has(ev.log, E("save", 0))) =>
          /\ ~ev.success
          /\ CountKind(ev.log, "save") = 1
          /\ ev.log[Len(ev.log)] = E("save", 0)
          /\ ~HasKind(ev.log, "shutdown")
          /\ ~HasKind(ev.log, "setServerDown"))
  /\ [][(ev'.kind = "gsReturn" /\ Has(ev'.log, E("save", 0))) =>
          serverState' = serverState]_vars
  /\ \A p \in Procs : [](Has(log[p], E("save", 0)) => pc[p] \notin GsPcs)

\* the monitor's run ended on a failed save
C10_Witness ==
  /\ ev.kind = "gsReturn"
  /\ ev.proc \in Ticks
  /\ ev.log = <<E("isUp", 1), E("players", 0), E("save", 0)>>


\* ---- C11 ----
\* the run's first liveness poll reported down, or its first player poll
\* returned one or more players
StoppedEarly(lg) ==
  \/ Len(lg) >= 1 /\ lg[1] = E("isUp", 0)
  \/ Len(lg) >= 2 /\ lg[2].e = "players" /\ lg[2].n > 0

\* C11: when the initial liveness poll reports down, or the first player poll
\* returns players, gracefulShutdown returns success=false at once: no save,
\* no shutdown request, no notification, and the returning step leaves
\* serverState and consecutiveEmptyChecks as they were.
C11_EarlyExitTouchesNothing ==
  /\ []((ev.kind \in {"gsReturn", "gsThrow"} /\ StoppedEarly(ev.log)) =>
          /\ ev.kind = "gsReturn"
          /\ ~ev.success
          /\ Len(ev.log) <= 2
          /\ ~HasKind(ev.log, "save")
          /\ ~HasKind(ev.log, "shutdown")
          /\ ~HasKind(ev.log, "setServerDown"))
  /\ [][(ev'.kind = "gsReturn" /\ StoppedEarly(ev'.log)) =>
          /\ serverState' = serverState
          /\ consecutiveEmptyChecks' = consecutiveEmptyChecks]_vars
  /\ \A p \in Procs : [](pc[p] \in GsPcs => ~StoppedEarly(log[p]))

\* an auto-stop found the server down at its first poll; the counter is kept
C11_Witness ==
  /\ ev.kind = "gsReturn"
  /\ ev.proc \in Ticks
  /\ ev.log = <<E("isUp", 0)>>
  /\ consecutiveEmptyChecks >= Threshold

\* ---- C12 ----
\* C12: when waitForShutdown times out, gracefulShutdown returns success=false
\* ('shutdown timed out') without calling setServerDown; the timeout is
\* reached on the loop's last iteration and the returning step leaves
\* serverState as it was.
C12_TimeoutKeepsState ==
  /\ []((ev.kind = "gsReturn" /\ Has(ev.log, E("waitForShutdown", 0))) =>
          /\ ~ev.success
          /\ ev.msg.text = "Server shutdown timed out"
          /\ ev.log[Len(ev.log)] = E("waitForShutdown", 0)
          /\ ~HasKind(ev.log, "setServerDown"))
  /\ [][(ev'.kind = "gsReturn" /\ Has(ev'.log, E("waitForShutdown", 0))) =>
          /\ serverState' = serverState
          /\ pollsLeft[ev'.proc] = 1]_vars

\* a run timed out while the tracker believes the server is up
C12_Witness ==
  /\ ev.kind = "gsReturn"
  /\ ev.msg.text = "Server shutdown timed out"
  /\ serverState = KNOWN_UP
  /\ srvUp

\* ---- C13 ----
\* C13: gracefulShutdown returns success=true only after all gates, an
\* accepted shutdown request and a liveness poll that reported down, and at
\* that moment serverState is KNOWN_DOWN.
C13_SuccessMeansDown ==
  (ev.kind = "gsReturn" /\ ev.success) =>
    /\ ev.log = GatePrefix \o <<E("shutdown", 1), E("waitForShutdown", 1), E("setServerDown", 0)>>
    /\ serverState = KNOWN_DOWN

\* /palstop succeeded while a monitor tick is waiting for its player poll
C13_Witness ==
  /\ ev.kind = "gsReturn"
  /\ ev.success
  /\ ev.proc \in Cmds
  /\ \E t \in Ticks : pc[t] = "t_players"

\* ---- vocabulary of the monitor properties ----
TickEvent(t, k) == ev.proc = t /\ ev.kind = k
TickEvent1(t, k) == ev'.proc = t /\ ev'.kind = k
\* the tick called withLock(gracefulShutdown) in this step
Attempts(t) == TickEvent1(t, "acquired") \/ TickEvent1(t, "busy")
\* the tick's getPlayers() answered in this step
Polled(t) == pc[t] = "t_players" /\ pc'[t] # "t_players" /\ ~TickEvent1(t, "tickError")
\* the tick ends in its catch (error) or its catch (lockError) on a throw
\* of gracefulShutdown
TickFailed(t) == TickEvent1(t, "tickError") \/ TickEvent1(t, "gsThrow")

\* ---- C14 ----
\* C14 as stated: when a monitor-triggered gracefulShutdown returns,
\* consecutiveEmptyChecks is 0 on success and otherwise has the value it had
\* after this tick's own increment.
C14_KeepsOwnCount ==
  [][\A t \in Ticks : TickEvent1(t, "gsReturn") =>
       consecutiveEmptyChecks' = IF ev'.success THEN 0 ELSE attemptCount[t]]_vars

\* C14: when a monitor-triggered gracefulShutdown returns,
\* consecutiveEmptyChecks is 0 on success; otherwise the returning tick leaves
\* it as it is at that moment, which is this tick's incremented value unless
\* an overlapping tick has written the counter meanwhile.
C14_AttemptOutcome ==
  [][\A t \in Ticks : TickEvent1(t, "gsReturn") =>
       consecutiveEmptyChecks' =
         IF ev'.success THEN 0 ELSE consecutiveEmptyChecks]_vars

\* an auto-stop aborted after the settle delay and the count is still there
C14_Witness ==
  /\ \E t \in Ticks : TickEvent(t, "gsReturn")
  /\ ~ev.success
  /\ HasKind(ev.log, "sleep")
  /\ consecutiveEmptyChecks >= Threshold

\* ---- C15 ----
\* C15: a tick calls withLock(gracefulShutdown) if and only if its player
\* poll answered with zero players and consecutiveEmptyChecks, after this
\* tick's increment, is at least the threshold; only a tick whose liveness
\* poll reported up gets that far.
C15_AttemptIffThreshold ==
  [][\A t \in Ticks :
       /\ Attempts(t) => Polled(t)
       /\ Polled(t) =>
            (Attempts(t) <=>
               (players = 0 /\ consecutiveEmptyChecks + 1 >= Threshold))
       /\ TickEvent1(t, "acquired") => attemptCount'[t] >= Threshold]_vars

\* the tick that brings the counter to the threshold starts the attempt
C15_Witness ==
  /\ \E t \in Ticks : TickEvent(t, "acquired") /\ attemptCount[t] = Threshold
  /\ consecutiveEmptyChecks = Threshold
  /\ players = 0

\* ---- C16 ----
\* C16: a tick whose player poll reports zero players increments
\* consecutiveEmptyChecks by exactly one, a tick whose poll reports players
\* leaves it 0, every step that sets serverState to KNOWN_DOWN leaves it 0,
\* and it never decreases except to 0.
C16_CounterSteps ==
  [][/\ \A t \in Ticks :
          /\ (Polled(t) /\ players = 0) =>
               consecutiveEmptyChecks' = consecutiveEmptyChecks + 1
          /\ (Polled(t) /\ players > 0) => consecutiveEmptyChecks' = 0
     /\ (serverState # KNOWN_DOWN /\ serverState' = KNOWN_DOWN) =>
          consecutiveEmptyChecks' = 0
     /\ consecutiveEmptyChecks' < consecutiveEmptyChecks =>
          consecutiveEmptyChecks' = 0]_vars

\* the first idle tick has counted, below the threshold
C16_Witness ==
  /\ \E t \in Ticks : TickEvent(t, "tickIdle")
  /\ consecutiveEmptyChecks = Threshold - 1
  /\ serverState = KNOWN_UP

\* ---- C17 ----
\* C17: a tick that starts while serverState is KNOWN_DOWN returns at once:
\* it awaits no remote call and changes neither serverState nor
\* consecutiveEmptyChecks nor anything else.
C17_DownTickSkipped ==
  [][\A t \in Ticks :
       /\ (pc[t] = "idle" /\ serverState = KNOWN_DOWN) => pc'[t] = "idle"
       /\ TickEvent1(t, "tickSkipped") =>
            /\ serverState = KNOWN_DOWN
            /\ UNCHANGED <<busy, serverState, consecutiveEmptyChecks,
                           monitoringActive, intervalId, srvUp, players, pc,
                           pollsLeft, log, attemptCount>>]_vars

\* a tick was skipped although the server process is running again
C17_Witness ==
  /\ \E t \in Ticks : TickEvent(t, "tickSkipped")
  /\ srvUp

\* ---- C18 ----
\* C18: a tick that reaches the threshold while busy is set gets the busy
\* error at once: it runs no step of gracefulShutdown, returns without
\* waiting, leaves consecutiveEmptyChecks at its incremented value, and
\* leaves the lock, the holder's position and log, and serverState alone.
C18_BusyTickSkips ==
  [][\A t \in Ticks : TickEvent1(t, "busy") =>
       /\ busy /\ busy'
       /\ pc'[t] = "idle"
       /\ consecutiveEmptyChecks' = consecutiveEmptyChecks + 1
       /\ consecutiveEmptyChecks' >= Threshold
       /\ \A q \in Procs \ {t} : pc'[q] = pc[q]
       /\ UNCHANGED <<serverState, log, pollsLeft, srvUp, players>>]_vars

\* the tick met a /palstart that is waiting for the server to come up
C18_Witness ==
  /\ \E t \in Ticks : TickEvent(t, "busy")
  /\ \E c \in Cmds : pc[c] = "ss_wait"
  /\ consecutiveEmptyChecks >= Threshold

\* ---- C19 ----
\* C19: a tick that ends in an error (its player poll throws, or
\* gracefulShutdown throws inside the attempt) has not written
\* consecutiveEmptyChecks: it made no increment and its last step leaves the
\* counter as it is.
C19_ErrorKeepsCounter ==
  [][\A t \in Ticks : TickFailed(t) =>
       /\ attemptCount[t] = 0
       /\ consecutiveEmptyChecks' = consecutiveEmptyChecks]_vars

\* ---- C20 ----
\* C20: an error inside a tick is caught inside performMonitorCheck: the tick
\* returns normally to its idle position, the interval stays registered
\* (nothing ever clears it), so the callback fires again.
C20_LoopSurvivesErrors ==
  [][/\ intervalId => intervalId'
     /\ \A t \in Ticks : pc'[t] \in {"idle", "t_isUp", "t_getInfo", "t_players"} \cup GsPcs
     /\ \A t \in Ticks : TickFailed(t) =>
          /\ pc'[t] = "idle"
          /\ intervalId']_vars

\* a tick's player poll failed while the other tick's auto-stop is running
C20_Witness ==
  /\ \E t \in Ticks : TickEvent(t, "tickError")
  /\ \E u \in Ticks : pc[u] \in GsPcs
  /\ intervalId

\* ---- vocabulary of the tracker properties ----
GetInfoPcs == {"h_getInfo", "t_getInfo", "seed_getInfo"}
\* updateDiscordStatus calls that are waiting for their getInfo()
Pending(f) == Cardinality({p \in Procs : f[p] \in GetInfoPcs})
\* where the caller of handleServerUp goes on after updateDiscordStatus
Continuation(l) ==
  CASE l = "h_getInfo" -> "h_embed"
    [] l = "t_getInfo" -> "t_players"
    [] l = "seed_getInfo" -> "done"
    [] OTHER -> l
ThrowKinds == {"gsThrow", "ssThrow", "tickError", "lockedThrow"}

\* ---- C21 ----
\* C21: every change of serverState is into KNOWN_UP or KNOWN_DOWN, resets
\* consecutiveEmptyChecks and starts exactly one updateDiscordStatus call: a
\* change to KNOWN_DOWN sets the activity in the same step, a change to
\* KNOWN_UP leaves one more call waiting for getInfo(), every waiting call sets
\* the activity once, and no activity is set otherwise.
C21_ChangePublishesOnce ==
  [][/\ (serverState' # serverState /\ serverState' = KNOWN_UP) =>
          /\ consecutiveEmptyChecks' = 0
          /\ Pending(pc') = Pending(pc) + 1
          /\ pub' = NoPub
          /\ UNCHANGED timers
     /\ (serverState' # serverState /\ serverState' = KNOWN_DOWN) =>
          /\ consecutiveEmptyChecks' = 0
          /\ Pending(pc') = Pending(pc)
          /\ pub'.status = "DOWN"
     /\ serverState' = serverState =>
          Pending(pc') = Pending(pc) - (IF pub' = NoPub THEN 0 ELSE 1)
     /\ serverState' # serverState => serverState' # UNKNOWN]_vars

\* the state went down and was published while an earlier change to up is
\* still waiting for its getInfo()
C21_Witness ==
  /\ pub.status = "DOWN"
  /\ serverState = KNOWN_DOWN
  /\ Pending(pc) > 0

\* ---- C22 ----
\* C22: setServerUp while serverState is KNOWN_UP and setServerDown while it
\* is KNOWN_DOWN change nothing: serverState stays, no updateDiscordStatus
\* call is started or made, and the notification does not reset
\* consecutiveEmptyChecks (the monitor's own reset after a successful
\* auto-stop is the tick's, not the notification's).
C22_NotifyIdempotent ==
  [][/\ (ev'.kind = "ssReturn" /\ serverState = KNOWN_UP) =>
          /\ serverState' = KNOWN_UP
          /\ consecutiveEmptyChecks' = consecutiveEmptyChecks
          /\ pub' = NoPub
          /\ UNCHANGED timers
          /\ Pending(pc') = Pending(pc)
     /\ (ev'.kind = "gsReturn" /\ ev'.success /\ serverState = KNOWN_DOWN) =>
          /\ serverState' = KNOWN_DOWN
          /\ pub' = NoPub
          /\ UNCHANGED timers
          /\ Pending(pc') = Pending(pc)
          /\ ev'.proc \in Cmds =>
               consecutiveEmptyChecks' = consecutiveEmptyChecks]_vars

\* startServer found the server running while the tracker already knew it,
\* and the idle count is kept
C22_Witness ==
  /\ ev.kind = "ssReturn"
  /\ ev.msg.text = "already_running"
  /\ serverState = KNOWN_UP
  /\ consecutiveEmptyChecks > 0
  /\ \E c \in Cmds : pc[c] = "h_embed"

\* ---- C23 ----
\* C23: a throw of setActivity is caught inside updateDiscordStatus: the step
\* raises no error, a state change made in it is complete (counter reset, and
\* a shutdown still reports success), and a caller waiting in handleServerUp
\* goes on where it would have gone.
C23_PublishFailureContained ==
  [][/\ ~pub'.ok =>
          /\ ev'.kind \notin ThrowKinds
          /\ serverState' # serverState =>
               /\ serverState' = KNOWN_DOWN
               /\ consecutiveEmptyChecks' = 0
               /\ ev'.kind = "gsReturn" => ev'.success
     /\ \A p \in Procs : (pc[p] \in GetInfoPcs /\ pc'[p] # pc[p]) =>
          /\ pc'[p] = Continuation(pc[p])
          /\ pub' # NoPub
          /\ p = Mon => intervalId'
          /\ UNCHANGED <<serverState, consecutiveEmptyChecks, busy>>]_vars

\* the activity could not be set after a start, and /palstart goes on to
\* build its embed under the lock
C23_Witness ==
  /\ ~pub.ok
  /\ pub.status = "UP"
  /\ busy
  /\ \E c \in Cmds : pc[c] = "h_embed"

\* ---- C24 ----
\* C24: when the launcher fails or no liveness poll answers before the start
\* timeout, startServer throws ('Server did not come up in time' on timeout);
\* the throwing step and the editReply that follows leave serverState and
\* consecutiveEmptyChecks alone, start no updateDiscordStatus call, and the
\* lock is released when that editReply settles.
C24_FailedStartKeepsTracker ==
  [][\A c \in Cmds :
       /\ (pc[c] = "ss_launch" /\ Has(log'[c], E("launch", 0))) =>
            (ev'.kind = "ssThrow" /\ ev'.proc = c)
       /\ (pc[c] = "ss_wait" /\ pc'[c] # "ss_wait" /\ ev'.kind # "ssReturn") =>
            /\ ev'.kind = "ssThrow" /\ ev'.proc = c
            /\ ev'.msg.text = "Server did not come up in time"
            /\ pollsLeft[c] = 1
       /\ (ev'.kind = "ssThrow" /\ ev'.proc = c) =>
            /\ pc'[c] = "reply_locked"
            /\ busy /\ busy'
            /\ pub' = NoPub
            /\ UNCHANGED timers
            /\ Pending(pc') = Pending(pc)
            /\ UNCHANGED <<serverState, consecutiveEmptyChecks>>
       /\ (pc[c] = "reply_locked" /\ pc'[c] # "reply_locked") =>
            /\ ~busy'
            /\ pub' = NoPub
            /\ UNCHANGED timers
            /\ UNCHANGED <<serverState, consecutiveEmptyChecks>>]_vars

\* the start timed out while the tracker believes the server is down
C24_Witness ==
  /\ ev.kind = "ssThrow"
  /\ ev.msg.text = "Server did not come up in time"
  /\ serverState = KNOWN_DOWN
  /\ busy

\* ---- C25 ----
\* C25 as stated: when the lock is released after a /palstart whose
\* startServer call returned, serverState is KNOWN_UP.
C25_UpAtRelease ==
  [][\A c \in Cmds : (pc[c] = "reply_started" /\ pc'[c] # "reply_started") =>
       (~busy' /\ serverState' = KNOWN_UP)]_vars

\* C25: when startServer returns to /palstart, setServerUp runs in the same
\* step with the lock held, so serverState is KNOWN_UP from then on; until
\* the lock is released only a monitor tick or the seed check whose liveness
\* poll did not answer changes that, and the release itself leaves
\* serverState alone.
C25_NotifiedUnderLock ==
  [][/\ ev'.kind = "ssReturn" =>
          /\ serverState' = KNOWN_UP
          /\ busy /\ busy'
          /\ pc'[ev'.proc] \in {"h_getInfo", "h_embed"}
     /\ \A c \in Cmds :
          /\ (pc[c] \in {"h_getInfo", "h_embed", "reply_started"}
                /\ serverState = KNOWN_UP /\ serverState' # KNOWN_UP) =>
               \/ \E t \in Ticks : TickEvent1(t, "tickDown")
               \/ pc[Mon] = "seed_isUp" /\ pc'[Mon] = "done"
          /\ (pc[c] = "reply_started" /\ pc'[c] # "reply_started") =>
               (~busy' /\ serverState' = serverState)
          /\ pc'[c] = "reply_started" => busy']_vars

\* /palstart has started the server and is about to reply, lock still held
C25_Witness ==
  /\ \E c \in Cmds : pc[c] = "reply_started" /\ Has(log[c], E("launch", 1))
  /\ serverState = KNOWN_UP
  /\ busy

\* ---- C26 ----
\* a monitor tick has just ended, whichever way
TicksKeepFiring == []<>(ev.proc \in Ticks)

\* C26: if from some moment on the server answers, and monitor ticks keep
\* firing, then serverState is KNOWN_UP again and again: the monitor notices
\* a server that came up by itself.
C26_UpNoticed == (<>[]srvUp /\ TicksKeepFiring) => []<>(serverState = KNOWN_UP)

\* ---- C27 ----
\* the last step reported a remote call that did not succeed
RemoteFailure ==
  \/ ev.kind \in {"tickError", "tickDown", "gsThrow"}
  \/ /\ ev.kind = "gsReturn"
     /\ \E e \in {"isUp", "save", "shutdown"} : Has(ev.log, E(e, 0))

\* a monitor tick's gracefulShutdown has had its shutdown request accepted
AutoStopRequested ==
  \/ \E t \in Ticks : Has(log[t], E("shutdown", 1))
  \/ ev.proc \in Ticks /\ Has(ev.log, E("shutdown", 1))

\* C27: if from some moment on the server stays up with zero players and no
\* remote call fails, and monitor ticks keep firing, then the monitor issues
\* a shutdown request, again and again for as long as the server keeps
\* running.
C27_AutoStopFires ==
  (<>[](srvUp /\ players = 0 /\ ~RemoteFailure) /\ TicksKeepFiring)
    => []<>AutoStopRequested

C29_StartStopIdempotent ==
  /\ [](timers <= 1)
  /\ [][ev'.kind = "startSkipped" =>
          /\ monitoringActive
          /\ pc'[ev'.proc] # "seed_isUp"
          /\ UNCHANGED <<monitoringActive, intervalId, timers, serverState,
                         consecutiveEmptyChecks>>]_vars
  /\ [][ev'.kind = "stopSkipped" =>
          /\ ~monitoringActive
          /\ UNCHANGED <<monitoringActive, intervalId, timers, serverState,
                         consecutiveEmptyChecks, pc>>]_vars

\* ---- C30 ----
ReadPcs == {"defer_read", "r_isUp", "r_data"}
\* the next step of a /palstatus or /palplayers handler
ReadStep(c) == (pc[c] = "defer_read" /\ CmdDeferred(c)) \/ ReadIsUp(c) \/ ReadData(c)

\* C30: a /palstatus or /palplayers handler never calls withLock: whatever
\* busy is, its next step can be taken as soon as its awaited call settles,
\* it never gets the busy error, it ends with a reply, and none of its steps
\* changes busy, serverState or consecutiveEmptyChecks.
C30_ReadsNeverBlocked ==
  /\ [](\A c \in Cmds : pc[c] \in ReadPcs => ENABLED ReadStep(c))
  /\ [][\A c \in Cmds : (pc[c] \in ReadPcs /\ pc'[c] # pc[c]) =>
          /\ pc'[c] \in ReadPcs \cup {"reply"}
          /\ ~(ev'.proc = c /\ ev'.kind \in {"busy", "acquired"})
          /\ UNCHANGED <<busy, serverState, consecutiveEmptyChecks, log, timers>>
          /\ pub' = NoPub]_vars

\* a read command got its answer while the other command's shutdown holds
\* the lock
C30_Witness ==
  /\ ev.kind = "readDone"
  /\ busy
  /\ \E q \in Cmds : pc[q] \in GsPcs

\* ---- C33 ----
\* C33: a serverState change made by /palstart (setServerUp) or /palstop (the
\* setServerDown of a confirmed shutdown) happens while busy is set and that
\* command is the one process inside withLock; every other change is made by
\* a monitor tick or by the seed check.
C33_ExplicitChangesLocked ==
  [][serverState' # serverState =>
       \/ \E c \in Cmds :
            /\ ev'.proc = c
            /\ ev'.kind \in {"ssReturn", "gsReturn"}
            /\ busy /\ busy'
            /\ InLocked(c) /\ pc'[c] \in LockedPcs
            /\ \A q \in (Cmds \cup Ticks) \ {c} : ~InLocked(q)
       \/ \E t \in Ticks : pc[t] = "t_isUp" /\ pc'[t] # "t_isUp"
       \/ \E t \in Ticks : pc[t] = "gs_wait" /\ ev'.proc = t /\ ev'.kind = "gsReturn" /\ busy
       \/ pc[Mon] = "seed_isUp" /\ pc'[Mon] # "seed_isUp"]_vars

\* /palstart has just recorded the server as up, the lock still held
C33_Witness ==
  /\ ev.kind = "ssReturn"
  /\ ev.proc \in Cmds
  /\ pc[ev.proc] = "h_getInfo"
  /\ serverState = KNOWN_UP
  /\ busy

\* ---- C34 ----
\* C34: whenever serverState is KNOWN_DOWN, consecutiveEmptyChecks is 0.
C34_DownMeansZero == serverState = KNOWN_DOWN => consecutiveEmptyChecks = 0

\* ---- C35 ----
\* C35: when a tick's isUp() settles: if the server was not confirmed the
\* state is KNOWN_DOWN and the tick ends there, without getPlayers and
\* without withLock; if it was confirmed the state is KNOWN_UP, and when it
\* was not KNOWN_UP before, the counter is reset and the status published
\* before getPlayers is awaited.
C35_TickLiveness ==
  [][\A t \in Ticks : (pc[t] = "t_isUp" /\ pc'[t] # "t_isUp") =>
       /\ ~srvUp => pc'[t] = "idle"
       /\ pc'[t] = "idle" =>
            /\ serverState' = KNOWN_DOWN
            /\ ev' = Ev(t, "tickDown", FALSE, NoMsg, <<>>)
            /\ UNCHANGED <<busy, log>>
       /\ pc'[t] # "idle" =>
            /\ srvUp
            /\ serverState' = KNOWN_UP
            /\ ev' = NoEv
            /\ UNCHANGED <<busy, log>>
            /\ IF serverState # KNOWN_UP
                 THEN consecutiveEmptyChecks' = 0 /\ pc'[t] = "t_getInfo"
                 ELSE UNCHANGED consecutiveEmptyChecks /\ pc'[t] = "t_players"]_vars

\* a tick found the server gone while it was recorded as up
C35_Witness ==
  /\ ev.kind = "tickDown"
  /\ ev.proc \in Ticks
  /\ serverState = KNOWN_DOWN
  /\ pub.status # NoPub.status
  /\ ~srvUp

\* ---- C36 ----
\* C36: waitFor ends with true only when the server is up and
\* waitForShutdown with true only when it is gone; otherwise either loop
\* ends only when its timeout has elapsed.
C36_FailedPollRetried ==
  [][\A p \in Cmds \cup Ticks :
       /\ (pc[p] = "gs_wait" /\ pc'[p] # "gs_wait") =>
            \/ ev'.success /\ ~srvUp
            \/ ~ev'.success /\ NextPolls(pollsLeft[p]) <= 0
       /\ (pc[p] = "ss_wait" /\ pc'[p] # "ss_wait") =>
            \/ ev'.kind = "ssReturn" /\ srvUp
            \/ ev'.kind = "ssThrow" /\ NextPolls(pollsLeft[p]) <= 0]_vars

\* ---- C38 ----
StartInProgress == \E p \in Procs : pc[p] \in {"seed_isUp", "seed_getInfo"}

\* C38: while no startMonitoring call is awaiting its seed check, an interval
\* timer is registered exactly when monitoringActive is set.
C38_TimerIffActive == ~StartInProgress => ((timers > 0) <=> monitoringActive)

\* ---- C39 ----
\* C39: serverState starts as UNKNOWN and, once KNOWN_UP or KNOWN_DOWN, is
\* never UNKNOWN again.
C39_NeverUnknownAgain ==
  /\ serverState = UNKNOWN
  /\ [](serverState \in SERVER_STATE)
  /\ [][serverState # UNKNOWN => serverState' # UNKNOWN]_vars

\* a shutdown run failed after the server had been recorded as down
C39_Witness ==
  /\ ev.kind = "gsThrow"
  /\ serverState = KNOWN_DOWN

\* ---- C31 ----
\* no role of member m is 'palserver' when compared without regard to case
LacksRole(m) == \A r \in MemberRoles(m) : toLowerCase(r) # palserver

\* C31: an interaction from a member without a role named palserver (in any
\* letter case) leaves every handler position, the lock, the call logs, the
\* poll counters, serverState and the counter as they were; a handler leaves
\* idle only for an interaction from a member with the role; and the start
\* and stop runs are entered only by such a handler after its deferReply()
\* or by a monitor tick.
C31_RoleRequired ==
  /\ [][(ev'.kind \in {"authorized", "unauthorized"} /\ LacksRole(ev'.msg.count)) =>
          /\ ev'.kind = "unauthorized"
          /\ UNCHANGED <<busy, serverState, consecutiveEmptyChecks, pc, log,
                         pollsLeft, monitoringActive, intervalId, timers,
                         attemptCount>>
          /\ pub' = NoPub]_vars
  /\ [][\A c \in Cmds : (pc[c] = "idle" /\ pc'[c] # "idle") =>
          /\ ev'.proc = c
          /\ ev'.kind = "authorized"
          /\ ~LacksRole(ev'.msg.count)]_vars
  /\ [][\A p \in Cmds \cup Ticks : (~InLocked(p) /\ InLocked(p)') =>
          \/ p \in Ticks /\ pc[p] = "t_players"
          \/ p \in Cmds /\ pc[p] \in {"defer_start", "defer_stop"}]_vars

\* a member without the role asked while the server was up and the lock
\* free
C31_Witness ==
  /\ ev.kind = "unauthorized"
  /\ LacksRole(ev.msg.count)
  /\ MemberRoles(ev.msg.count) # {}
  /\ serverState = KNOWN_UP
  /\ ~busy

\* ---- C32 ----
\* C32: validatePositiveInteger returns an integer between min and max or
\* throws; a loaded configuration has its threshold in 1..10 and its interval
\* in 60000..3600000, a configuration that did not load starts no monitor;
\* and a tick calls withLock(gracefulShutdown) only with a counter of at
\* least one.
C32_ConfigBounded ==
  /\ [](\A min \in 0 .. 2, max \in 8 .. 11 :
          LET v == validatePositiveInteger(env.EMPTY_CHECK_THRESHOLD, min, max)
          IN v.threw \/ (v.value \in Int /\ min <= v.value /\ v.value <= max))
  /\ [](config.loaded =>
          /\ config.emptyCheckThreshold \in 1 .. 10
          /\ config.intervalMs \in 60000 .. 3600000)
  /\ [](~config.loaded => (pc[Mon] = "init" /\ timers = 0))
  /\ [][(ev'.kind = "acquired" /\ ev'.proc \in Ticks) =>
          /\ consecutiveEmptyChecks' >= 1
          /\ attemptCount'[ev'.proc] >= 1]_vars

\* with EMPTY_CHECK_THRESHOLD given as something other than "1" that parses
\* to 1, the first empty check attempts the shutdown
C32_Witness ==
  /\ ev.kind = "acquired"
  /\ ev.proc \in Ticks
  /\ env.EMPTY_CHECK_THRESHOLD \notin {<<>>, <<"1">>}
  /\ config.emptyCheckThreshold = 1
  /\ consecutiveEmptyChecks = 1

\* ---- C37 ----
\* C37: lastKnownServerName changes only when a getInfo() of
\* updateDiscordStatus settles successfully with a name, and it becomes that
\* name; that getInfo() was called with serverState KNOWN_UP; a step that
\* takes serverState to KNOWN_DOWN leaves the name as it is.
C37_NameRetained ==
  /\ [][lastKnownServerName' # lastKnownServerName =>
          /\ \E p \in Procs : pc[p] \in GetInfoPcs /\ pc'[p] # pc[p]
          /\ srvUp
          /\ serverName # NoName
          /\ lastKnownServerName' = serverName]_vars
  /\ [][\A p \in Procs : (pc'[p] \in GetInfoPcs /\ pc[p] \notin GetInfoPcs) =>
          serverState' = KNOWN_UP]_vars
  /\ [][(serverState' = KNOWN_DOWN /\ serverState # KNOWN_DOWN) =>
          UNCHANGED lastKnownServerName]_vars

\* a tick's status update settled after a stop had recorded the server as
\* down: DOWN is published under the name kept
C37_Witness ==
  /\ \E t \in Ticks : pc[t] = "t_players"
  /\ ev.kind = "none"
  /\ pub.status = "DOWN"
  /\ serverState = KNOWN_DOWN
  /\ lastKnownServerName # DefaultName

\* ---- C40 ----
\* C40: once the timer of a wrapped call has fired and time has passed, the
\* call has been rejected with 'API request timeout'.
C40_TimeoutEnforced ==
  (call.timer = "fired" /\ call.elapsed > call.timeoutMs) =>
    (call.st = "thrown" /\ call.out.msg = <<"API", "request", "timeout">>)

====
